---- MODULE Spec2Model ----
(***************************************************************************)
(* Model of the embedding ingestion pipeline (refresh_embeddings) and the  *)
(* weighted recommendation scorer (recommend_places) of GgUd-AI.           *)
(*                                                                         *)
(* Conventions                                                             *)
(*  - a Python str is a sequence of one-character strings; None is the     *)
(*    one-element sequence <<"None">>, which no str equals;                *)
(*  - an embedding vector is a position 0..10 on a line and the cosine     *)
(*    distance of two vectors is twice their gap, in tenths (0..20 stands  *)
(*    for 0.0..2.0);                                                       *)
(*  - the table review_embeddings is a bag of rows, so that two rows with  *)
(*    the same triple are representable; only the unique constraint keeps  *)
(*    them apart;                                                          *)
(*  - a SQLAlchemy Session is (new, flushed, inactive): objects added and  *)
(*    not yet flushed, rows INSERTed in the open transaction, and the      *)
(*    "rolled back, rollback() required" state after a failed flush.       *)
(***************************************************************************)
EXTENDS Integers, Sequences, FiniteSets, Bags, TLC

\* ------------------------------------------------------------------ bounds
MaxCalls == 3          \* refresh_embeddings calls started in one behaviour
MaxUpserts == 2        \* upsert_place calls and ingest_from_crawl runs made in one behaviour

Sessions == {"s1", "s2"}   \* database sessions (workers) alive at once
PlaceIds == {1, 2}         \* ids of the rows of the table places

\* --------------------------------------------------------------- str model
None == <<"None">>

Truthy(value) == value # None /\ value # <<>>

RECURSIVE lstrip(_)
lstrip(s) == IF s # <<>> /\ Head(s) = " " THEN lstrip(Tail(s)) ELSE s

RECURSIVE rstrip(_)
rstrip(s) ==
    IF s # <<>> /\ s[Len(s)] = " " THEN rstrip(SubSeq(s, 1, Len(s) - 1)) ELSE s

strip(s) == rstrip(lstrip(s))

\* str.split(","): the segments between commas, empty segments included
RECURSIVE split(_)
split(s) ==
    IF \E i \in 1..Len(s) : s[i] = ","
    THEN LET i == CHOOSE k \in 1..Len(s) :
                      s[k] = "," /\ \A j \in 1..(k - 1) : s[j] # ","
         IN  <<SubSeq(s, 1, i - 1)>> \o split(SubSeq(s, i + 1, Len(s)))
    ELSE <<s>>

\* ", ".join(parts)
RECURSIVE join(_)
join(parts) ==
    IF parts = <<>> THEN <<>>
    ELSE IF Len(parts) = 1 THEN parts[1]
    ELSE parts[1] \o <<",", " ">> \o join(Tail(parts))

\* refresh_embeddings.split_values
split_values(value) ==
    IF ~Truthy(value) THEN <<>>
    ELSE LET parts == split(value)
             stripped == [i \in 1..Len(parts) |-> strip(parts[i])]
         IN  SelectSeq(stripped, LAMBDA v : v # <<>>)

\* ------------------------------------------------------ category extractor
CATEGORY_KEYS == <<"companion", "menu", "mood", "purpose">>

\* a JSON value of the language model's answer
JNull == [t |-> "null", v |-> <<>>]
JStr(s) == [t |-> "str", v |-> s]
JList(l) == [t |-> "list", v |-> l]
JNum(n) == [t |-> "num", v |-> n]

\* str(n) of a one-digit number
Digits == <<"0", "1", "2", "3", "4", "5", "6", "7", "8", "9">>

\* LLMService.extract_categories.normalize_value
normalize_value(value) ==
    CASE value.t = "null" -> None
      [] value.t = "list" -> join(SelectSeq(value.v, LAMBDA v : v # <<>>))
      [] value.t = "num" -> <<Digits[value.v + 1]>>
      [] OTHER -> IF value.v # <<>> THEN value.v ELSE None

\* the answers the language model gives in this model (json.loads(content))
LLMAnswers ==
    { [companion |-> JStr(<<"a">>),
       menu      |-> JStr(<<"h", ",", " ", " ", "h", " ", ",", " ", "i">>),
       mood      |-> JNull,
       purpose   |-> JNull],
      [companion |-> JNull,
       menu      |-> JList(<< <<"i">> >>),
       mood      |-> JNull,
       purpose   |-> JStr(<<>>)] }

\* LLMService.extract_categories, after the completion call returned `data`
extract_categories(data) ==
    [key \in {"companion", "menu", "mood", "purpose"} |-> normalize_value(data[key])]

\* ------------------------------------------------------- embedding function
Code(c) ==
    CASE c = "a" -> 0 [] c = "b" -> 1 [] c = "c" -> 5 [] c = "d" -> 7
      [] c = "h" -> 3 [] c = "i" -> 9 [] c = "," -> 4 [] OTHER -> 2

RECURSIVE SumCodes(_)
SumCodes(s) == IF s = <<>> THEN 0 ELSE Code(Head(s)) + SumCodes(Tail(s))

\* LLMService.embed_text: the same text always yields the same vector
embed_text(text) == SumCodes(text) % 11

\* --------------------------------------------------------------- variables
VARIABLES
    autoflush,    \* SessionLocal's autoflush setting
    places,       \* table places: id -> row
    store,        \* table review_embeddings: bag of committed rows
    pc,           \* per session: where its refresh_embeddings call stands
    place_id,     \* per session: argument place_id
    categories,   \* per session: the extracted CategoryInfo
    todo,         \* per session: the (key, single_value) pairs still to visit
    inserted,     \* per session: local inserted
    skipped,      \* per session: local skipped
    new,          \* per session: rows db.add()ed and not yet flushed (bag)
    flushed,      \* per session: rows INSERTed in the open transaction (bag)
    inactive,     \* per session: the transaction was rolled back by a failed flush
    error,        \* per session: the exception the last call raised, or "none"
    calls,        \* refresh_embeddings calls started so far
    \* history, read by the properties only
    embedded,     \* per session: triples embed_text was called for in this call
    billed,       \* triples embed_text was called for by calls that returned
    before,       \* per session: the table review_embeddings when the call began
    last,         \* the call that returned most recently
    prev,         \* per session: `last` when the session's call began
    \* the recommend_places call
    rpc,              \* where the call stands
    query,            \* argument categories (a CategoryInfo)
    limit_arg,        \* argument limit (0: None)
    limit,            \* local limit, after line 126
    location_filter,  \* argument location_filter
    key_index,        \* index in CATEGORY_KEYS of the next key of the loop
    candidates,       \* per key: the place ids of `rows`, as fetched
    place_scores,     \* the dict place_scores, in insertion order
    result,           \* the ids of the PlaceOut list returned
    raised,           \* the exception that ended the request, or "none"
    \* history, read by the properties only
    embed_log,        \* the (key, text) pairs embed_text was called with
    search_log,       \* the (key, limit) pairs _similar_places_stmt was run with
    \* the upsert_place calls
    upserts,          \* upsert_place calls made so far
    upsert_data,      \* argument data of the last call
    upsert_error,     \* the exception the last call raised, or "none"
    \* the ingest_from_crawl runs
    crawls,           \* runs made so far
    crawled,          \* what fetch_places_from_cli returned to the last run
    crawl_summary,    \* the PlaceCrawlSummary the last run returned
    crawl_error,      \* the exception the last run raised, or "none"
    \* upsert_place calls that run at the same time, one in each session
    up_pc,            \* position of the call of each session
    up_data,          \* its argument data
    up_place,         \* whether its db.get returned a row
    up_pending,       \* whether its session holds a Place that was added
    up_error,         \* the exception it raised, or "none"
    \* a batch run over places and reviews in session "s1"
    batch_kind,       \* "crawl" (crawl_reviews_for_places), "generate"
                      \* (generate_embeddings) or "none"
    batch_pc,         \* position of the run
    batch_ids,        \* the place ids still to process, current one first
    batch_reviews,    \* the reviews of the current place still to process
    batch_call,       \* value of calls when the current review was taken up
    batch_summary,    \* the counters of the run, returned at its end
    batch_failures    \* crawl and ingest failures that happened in the run

ingestVars == <<pc, place_id, categories, todo, inserted, skipped, new, flushed,
                inactive, error, calls, embedded, billed, before, last, prev>>

recommendVars == <<rpc, query, limit_arg, limit, location_filter, key_index, candidates,
                   place_scores, result, raised, embed_log, search_log>>

crawlVars == <<crawls, crawled, crawl_summary, crawl_error>>
raceVars == <<up_pc, up_data, up_place, up_pending, up_error>>
placeVars == <<upserts, upsert_data, upsert_error, crawlVars, raceVars>>
batchVars == <<batch_kind, batch_pc, batch_ids, batch_reviews, batch_call,
               batch_summary, batch_failures>>

vars == <<autoflush, places, store, ingestVars, recommendVars, placeVars, batchVars>>

NoCategories == [key \in {"companion", "menu", "mood", "purpose"} |-> None]

NoCall == [by |-> "nobody", ok |-> FALSE, place_id |-> 0,
           categories |-> NoCategories, inserted |-> 0, skipped |-> 0]

Triple(row) == <<row.place_id, row.category, row.value_text>>

Triples(bag) == {Triple(row) : row \in BagToSet(bag)}

Keys == {"companion", "menu", "mood", "purpose"}

\* the rows of `bag` of place p and category key
Entries(bag, p, key) ==
    {row \in BagToSet(bag) : row.place_id = p /\ row.category = key}

\* PlaceEmbedding(place_id=..., category=..., value_text=..., embedding=...)
PlaceEmbedding(p, key, value, embedding) ==
    [place_id |-> p, category |-> key, value_text |-> value, embedding |-> embedding]

\* the (key, single_value) pairs the two nested loops of refresh_embeddings
\* visit, in order: keys with a falsy value are skipped (line 70)
RECURSIVE TodoFrom(_, _)
TodoFrom(cats, k) ==
    IF k > Len(CATEGORY_KEYS) THEN <<>>
    ELSE LET key == CATEGORY_KEYS[k]
             values == IF Truthy(cats[key]) THEN split_values(cats[key]) ELSE <<>>
         IN  [i \in 1..Len(values) |-> <<key, values[i]>>] \o TodoFrom(cats, k + 1)

\* the rows of the table places: six places on the meridian of longitude 0,
\* at 0, 10, 15, 5, 20 and 25 km from latitude 0 (one unit of latitude is
\* 5 km of arc)
Registry ==
    [p \in {1, 2, 3, 4, 5, 6} |->
        [name |-> "n", category |-> "c", origin_address |-> "o",
         latitude |-> CASE p = 1 -> 0 [] p = 2 -> 2 [] p = 3 -> 3
                        [] p = 4 -> 1 [] p = 5 -> 4 [] OTHER -> 5,
         longitude |-> 0,
         updated_at |-> 0]]

\* the counters of a batch run at its start
NoBatchSummary == [places_processed |-> 0, reviews_processed |-> 0,
                   embeddings_created |-> 0, review_failures |-> 0]

\* no ingest_from_crawl run has returned
NoSummary == [places_fetched |-> 0, places_skipped |-> 0]

\* no upsert_place call has been made
NoData ==
    [id |-> 0, name |-> "", category |-> "", origin_address |-> "",
     latitude |-> 0, longitude |-> 0]

\* location_filter = None; `keys` are the keys of the dict, `present` its truth
NoFilter ==
    [present |-> FALSE, keys |-> {}, latitude |-> 0, longitude |-> 0, radius_km |-> 0]

NoCandidates == [key \in {"companion", "menu", "mood", "purpose"} |-> <<>>]

\* ------------------------------------------------------------ the database
UniqueViolation_off(batch, existing) == FALSE

\* UniqueConstraint("place_id", "category", "value_text"): INSERTing `batch`
\* next to the rows `existing` breaks uq_review_category_value
UniqueViolation(batch, existing) ==
    \/ BagCardinality(batch) # Cardinality(Triples(batch))
    \/ Triples(batch) \cap Triples(existing) # {}

\* ForeignKey("places.id"): a row of `batch` names no row of places
ForeignKeyViolation(batch) ==
    \E row \in BagToSet(batch) : row.place_id \notin DOMAIN places

\* session s is at a statement that flushes its pending rows
Flushing(s) ==
    /\ pc[s] = "loop"
    /\ new[s] # EmptyBag
    /\ autoflush \/ todo[s] = <<>>

\* the INSERTs of session s wait for the open transaction of session t, which
\* holds an uncommitted row with the same triple
WaitsFor(s, t) ==
    /\ s # t
    /\ Flushing(s)
    /\ Triples(new[s]) \cap Triples(flushed[t]) # {}

Blocked(s) == \E t \in Sessions : WaitsFor(s, t)

Deadlock(s) == \E t \in Sessions : WaitsFor(s, t) /\ WaitsFor(t, s)

\* what a statement of session s meets when it flushes: "ok", or its exception
FlushResult(s) ==
    CASE inactive[s] -> "PendingRollbackError"
      [] Deadlock(s) -> "DeadlockDetected"
      [] UniqueViolation(new[s], store (+) flushed[s]) -> "IntegrityError"
      [] ForeignKeyViolation(new[s]) -> "IntegrityError"
      [] OTHER -> "ok"

Raise_then_commit(s, exc) ==
    /\ pc' = [pc EXCEPT ![s] = "failed"]
    /\ error' = [error EXCEPT ![s] = exc]
    /\ IF exc = "ExtractionError"
       THEN /\ store' = store (+) flushed[s] (+) new[s]
            /\ new' = [new EXCEPT ![s] = EmptyBag]
            /\ flushed' = [flushed EXCEPT ![s] = EmptyBag]
            /\ UNCHANGED inactive
       ELSE /\ store' = store
            /\ IF exc \in {"IntegrityError", "DeadlockDetected"}
               THEN /\ new' = [new EXCEPT ![s] = EmptyBag]
                    /\ flushed' = [flushed EXCEPT ![s] = EmptyBag]
                    /\ inactive' = [inactive EXCEPT ![s] = TRUE]
               ELSE UNCHANGED <<new, flushed, inactive>>
    /\ last' = [NoCall EXCEPT !.by = s]
    /\ UNCHANGED billed

\* an exception leaves refresh_embeddings, which has no except clause: nothing
\* is committed. A failed flush has rolled the transaction back and expunged
\* the pending objects; any other exception leaves the session as it is
Raise(s, exc) ==
    /\ pc' = [pc EXCEPT ![s] = "failed"]
    /\ error' = [error EXCEPT ![s] = exc]
    /\ store' = store
    /\ IF exc \in {"IntegrityError", "DeadlockDetected"}
       THEN /\ new' = [new EXCEPT ![s] = EmptyBag]
            /\ flushed' = [flushed EXCEPT ![s] = EmptyBag]
            /\ inactive' = [inactive EXCEPT ![s] = TRUE]
       ELSE UNCHANGED <<new, flushed, inactive>>
    /\ last' = [NoCall EXCEPT !.by = s]
    /\ UNCHANGED billed

db_add_and_commit(s, row) ==
    /\ store' = store (+) SetToBag({row})
    /\ UNCHANGED new

\* db.add(embedding_row): the row is pending in the session, not in the table
db_add(s, row) ==
    /\ new' = [new EXCEPT ![s] = @ (+) SetToBag({row})]
    /\ UNCHANGED store

Exists_never(s, key, single_value, visible) == FALSE

\* lines 78-86: a row with the triple is visible to the session's query, in
\* the table or among the rows its own transaction has INSERTed
Exists(s, key, single_value, visible) ==
    <<place_id[s], key, single_value>> \in Triples(store) \cup Triples(visible)

\* the autoflush argument of the sessionmaker behind SessionLocal
\* (app/db/session.py): either setting
Autoflush == BOOLEAN

\* no recommend_places call has been made
RecommendIdle ==
    /\ rpc = "idle"
    /\ query = NoCategories
    /\ limit_arg = 0
    /\ limit = 0
    /\ location_filter = NoFilter
    /\ key_index = 1
    /\ candidates = NoCandidates
    /\ place_scores = <<>>
    /\ result = <<>>
    /\ raised = "none"
    /\ embed_log = <<>>
    /\ search_log = <<>>
    /\ upserts = 0
    /\ upsert_data = NoData
    /\ upsert_error = "none"
    /\ crawls = 0
    /\ crawled = <<>>
    /\ crawl_summary = NoSummary
    /\ crawl_error = "none"
    /\ up_pc = [s \in Sessions |-> "idle"]
    /\ up_data = [s \in Sessions |-> NoData]
    /\ up_place = [s \in Sessions |-> FALSE]
    /\ up_pending = [s \in Sessions |-> FALSE]
    /\ up_error = [s \in Sessions |-> "none"]
    /\ batch_kind = "none"
    /\ batch_pc = "idle"
    /\ batch_ids = <<>>
    /\ batch_reviews = <<>>
    /\ batch_call = 0
    /\ batch_summary = NoBatchSummary
    /\ batch_failures = 0

\* ---------------------------------------------------------------- actions
Init ==
    /\ autoflush \in Autoflush
    /\ places = Registry
    /\ store = EmptyBag
    /\ pc = [s \in Sessions |-> "idle"]
    /\ place_id = [s \in Sessions |-> 0]
    /\ categories = [s \in Sessions |-> NoCategories]
    /\ todo = [s \in Sessions |-> <<>>]
    /\ inserted = [s \in Sessions |-> 0]
    /\ skipped = [s \in Sessions |-> 0]
    /\ new = [s \in Sessions |-> EmptyBag]
    /\ flushed = [s \in Sessions |-> EmptyBag]
    /\ inactive = [s \in Sessions |-> FALSE]
    /\ error = [s \in Sessions |-> "none"]
    /\ calls = 0
    /\ embedded = [s \in Sessions |-> EmptyBag]
    /\ billed = EmptyBag
    /\ before = [s \in Sessions |-> EmptyBag]
    /\ last = NoCall
    /\ prev = [s \in Sessions |-> NoCall]
    /\ RecommendIdle

CanCall(s) == pc[s] \in {"idle", "done", "failed"} /\ calls < MaxCalls

\* refresh_embeddings(db, p, content) is entered
Enter(s, p) ==
    /\ CanCall(s)
    /\ calls' = calls + 1
    /\ place_id' = [place_id EXCEPT ![s] = p]
    /\ inserted' = [inserted EXCEPT ![s] = 0]
    /\ skipped' = [skipped EXCEPT ![s] = 0]
    /\ embedded' = [embedded EXCEPT ![s] = EmptyBag]
    /\ before' = [before EXCEPT ![s] = store]
    /\ prev' = [prev EXCEPT ![s] = last]
    /\ UNCHANGED <<recommendVars, placeVars, batchVars>>

\* line 64: extract_categories returns
Extract(s, p, data) ==
    /\ Enter(s, p)
    /\ categories' = [categories EXCEPT ![s] = extract_categories(data)]
    /\ todo' = [todo EXCEPT ![s] = TodoFrom(extract_categories(data), 1)]
    /\ pc' = [pc EXCEPT ![s] = "loop"]
    /\ error' = [error EXCEPT ![s] = "none"]
    /\ UNCHANGED <<autoflush, places, store, new, flushed, inactive, billed, last>>

\* line 64: the completion call or json.loads raises
ExtractFails(s, p) ==
    /\ Enter(s, p)
    /\ categories' = [categories EXCEPT ![s] = NoCategories]
    /\ todo' = [todo EXCEPT ![s] = <<>>]
    /\ Raise(s, "ExtractionError")
    /\ UNCHANGED <<autoflush, places>>

\* lines 78-90: the existence query, which autoflushes the pending rows first
ExistsQuery(s) ==
    /\ pc[s] = "loop"
    /\ todo[s] # <<>>
    /\ LET key == Head(todo[s])[1]
           single_value == Head(todo[s])[2]
           flushing == autoflush /\ new[s] # EmptyBag
           res == IF flushing \/ inactive[s] THEN FlushResult(s) ELSE "ok"
           visible == IF flushing THEN flushed[s] (+) new[s] ELSE flushed[s]
       IN  /\ ~Blocked(s) \/ Deadlock(s)
           /\ IF res # "ok"
              THEN Raise(s, res) /\ UNCHANGED <<todo, skipped>>
              ELSE /\ flushed' = [flushed EXCEPT ![s] = visible]
                   /\ new' = [new EXCEPT ![s] = IF flushing THEN EmptyBag ELSE @]
                   /\ IF Exists(s, key, single_value, visible)
                      THEN /\ skipped' = [skipped EXCEPT ![s] = @ + 1]
                           /\ todo' = [todo EXCEPT ![s] = Tail(@)]
                           /\ pc' = pc
                      ELSE /\ pc' = [pc EXCEPT ![s] = "embed"]
                           /\ UNCHANGED <<todo, skipped>>
                   /\ UNCHANGED <<store, inactive, error, billed, last>>
    /\ UNCHANGED <<autoflush, places, place_id, categories, inserted, calls,
                   embedded, before, prev>>
    /\ UNCHANGED <<recommendVars, placeVars, batchVars>>

\* lines 92-100: embed_text returns, the row is added to the session
Embed(s) ==
    /\ pc[s] = "embed"
    /\ LET key == Head(todo[s])[1]
           single_value == Head(todo[s])[2]
           embedding_row == PlaceEmbedding(place_id[s], key, single_value,
                                           embed_text(single_value))
       IN  /\ db_add(s, embedding_row)
           /\ embedded' = [embedded EXCEPT ![s] =
                              @ (+) SetToBag({Triple(embedding_row)})]
    /\ inserted' = [inserted EXCEPT ![s] = @ + 1]
    /\ todo' = [todo EXCEPT ![s] = Tail(@)]
    /\ pc' = [pc EXCEPT ![s] = "loop"]
    /\ UNCHANGED <<autoflush, places, place_id, categories, skipped,
                   flushed, inactive, error, calls, billed, before, last, prev>>
    /\ UNCHANGED <<recommendVars, placeVars, batchVars>>

\* line 92: embed_text raises
EmbedFails(s) ==
    /\ pc[s] = "embed"
    /\ Raise(s, "EmbeddingError")
    /\ UNCHANGED <<autoflush, places, place_id, categories, todo,
                   inserted, skipped, calls, embedded, before, prev>>
    /\ UNCHANGED <<recommendVars, placeVars, batchVars>>

\* a commit that writes the session's rows in place of the table
Commit_replaces(s) ==
    /\ pc[s] = "loop"
    /\ todo[s] = <<>>
    /\ ~Blocked(s) \/ Deadlock(s)
    /\ IF FlushResult(s) # "ok"
       THEN Raise(s, FlushResult(s))
       ELSE /\ store' = flushed[s] (+) new[s]
            /\ new' = [new EXCEPT ![s] = EmptyBag]
            /\ flushed' = [flushed EXCEPT ![s] = EmptyBag]
            /\ pc' = [pc EXCEPT ![s] = "done"]
            /\ billed' = billed (+) embedded[s]
            /\ last' = [by |-> s, ok |-> TRUE, place_id |-> place_id[s],
                        categories |-> categories[s],
                        inserted |-> inserted[s], skipped |-> skipped[s]]
            /\ UNCHANGED <<inactive, error>>
    /\ UNCHANGED <<autoflush, places, place_id, categories, todo, inserted,
                   skipped, calls, embedded, before, prev>>
    /\ UNCHANGED <<recommendVars, placeVars, batchVars>>

\* lines 103-104: db.commit() flushes the pending rows and commits the
\* transaction; the call returns (categories, inserted)
Commit(s) ==
    /\ pc[s] = "loop"
    /\ todo[s] = <<>>
    /\ ~Blocked(s) \/ Deadlock(s)
    /\ IF FlushResult(s) # "ok"
       THEN Raise(s, FlushResult(s))
       ELSE /\ store' = store (+) flushed[s] (+) new[s]
            /\ new' = [new EXCEPT ![s] = EmptyBag]
            /\ flushed' = [flushed EXCEPT ![s] = EmptyBag]
            /\ pc' = [pc EXCEPT ![s] = "done"]
            /\ billed' = billed (+) embedded[s]
            /\ last' = [by |-> s, ok |-> TRUE, place_id |-> place_id[s],
                        categories |-> categories[s],
                        inserted |-> inserted[s], skipped |-> skipped[s]]
            /\ UNCHANGED <<inactive, error>>
    /\ UNCHANGED <<autoflush, places, place_id, categories, todo, inserted,
                   skipped, calls, embedded, before, prev>>
    /\ UNCHANGED <<recommendVars, placeVars, batchVars>>

\* the caller closes the session (get_db, or db.close() of a script): the
\* open transaction is rolled back and the pending objects are dropped
Close(s) ==
    /\ pc[s] \in {"done", "failed"}
    /\ pc' = [pc EXCEPT ![s] = "idle"]
    /\ new' = [new EXCEPT ![s] = EmptyBag]
    /\ flushed' = [flushed EXCEPT ![s] = EmptyBag]
    /\ inactive' = [inactive EXCEPT ![s] = FALSE]
    /\ UNCHANGED <<autoflush, places, store, place_id, categories, todo,
                   inserted, skipped, error, calls, embedded, billed, before,
                   last, prev>>
    /\ UNCHANGED <<recommendVars, placeVars, batchVars>>

Step(s) ==
    \/ \E p \in PlaceIds, data \in LLMAnswers : Extract(s, p, data)
    \/ \E p \in PlaceIds : ExtractFails(s, p)
    \/ ExistsQuery(s)
    \/ Embed(s)
    \/ EmbedFails(s)
    \/ Commit(s)
    \/ Close(s)

Next == \E s \in Sessions : Step(s)

Spec == Init /\ [][Next]_vars

\* the calls of refresh_embeddings run one after the other: no session takes a
\* step while another session is inside a call
Sequential(s) == \A t \in Sessions \ {s} : pc[t] \in {"idle", "done", "failed"}

NextSeq ==
    \E s \in Sessions :
        \/ \E p \in PlaceIds, data \in LLMAnswers : Sequential(s) /\ Extract(s, p, data)
        \/ \E p \in PlaceIds : Sequential(s) /\ ExtractFails(s, p)
        \/ Sequential(s) /\ ExistsQuery(s)
        \/ Sequential(s) /\ Embed(s)
        \/ Sequential(s) /\ EmbedFails(s)
        \/ Sequential(s) /\ Commit(s)
        \/ Sequential(s) /\ Close(s)

SpecSeq == Init /\ [][NextSeq]_vars

\* ------------------------------------------------------- recommend_places
recommendation_top_k == 5

\* CATEGORY_WEIGHTS, in tenths
CATEGORY_WEIGHTS ==
    [key \in {"companion", "menu", "mood", "purpose"} |->
        CASE key = "companion" -> 10 [] key = "menu" -> 8
          [] key = "mood" -> 6 [] OTHER -> 4]

Abs(x) == IF x < 0 THEN -x ELSE x

Min(S) == CHOOSE x \in S : \A y \in S : x <= y

\* PlaceEmbedding.embedding.cosine_distance(query_vector), in tenths (0..20)
cosine_distance(embedding, query_vector) == 2 * Abs(embedding - query_vector)

BestDistance_max(category, p, query_vector) ==
    LET S == {cosine_distance(row.embedding, query_vector) :
                 row \in Entries(store, p, category)}
    IN  CHOOSE x \in S : \A y \in S : x >= y

\* func.min(distance) of the group of place p
BestDistance(category, p, query_vector) ==
    Min({cosine_distance(row.embedding, query_vector) :
            row \in Entries(store, p, category)})

\* every sequence that lists the elements of S once
RECURSIVE Orderings(_)
Orderings(S) ==
    IF S = {} THEN {<<>>}
    ELSE UNION {{<<x>> \o rest : rest \in Orderings(S \ {x})} : x \in S}

\* every sequence that lists the elements of S once by ascending score[x]
RECURSIVE OrderedBy(_, _)
OrderedBy(S, score) ==
    IF S = {} THEN {<<>>}
    ELSE UNION {{<<x>> \o rest : rest \in OrderedBy(S \ {x}, score)} :
                    x \in {y \in S : \A z \in S : score[y] <= score[z]}}

Take(seq, n) == SubSeq(seq, 1, IF n < Len(seq) THEN n ELSE Len(seq))

\* a statement with no GROUP BY: one row (place_id, distance) per stored entry
similar_places_every_row(category, query_vector, lim) ==
    LET rows == {r \in BagToSet(store) : r.category = category}
        score(r) == cosine_distance(r.embedding, query_vector)
        order_by == OrderedBy(rows, [r \in rows |-> score(r)])
    IN  {Take([i \in 1..Len(o) |-> <<o[i].place_id, score(o[i])>>], lim) :
            o \in order_by}

\* the results db.execute(_similar_places_stmt(category, query_vector, lim))
\* can fetch: one row (place_id, score) per place with a row of the category,
\* by ascending score, the first lim of them; rows of equal score come in any
\* order, since ORDER BY names no other column
similar_places(category, query_vector, lim) ==
    LET group_by == {row.place_id : row \in
                        {r \in BagToSet(store) : r.category = category}}
        score(p) == BestDistance(category, p, query_vector)
        order_by == OrderedBy(group_by, [p \in group_by |-> score(p)])
    IN  {Take([i \in 1..Len(o) |-> <<o[i], score(o[i])>>], lim) : o \in order_by}

\* place_id in place_scores
InScores(scores, p) == \E i \in 1..Len(scores) : scores[i][1] = p

\* place_scores[place_id]
ScoreOf(scores, p) ==
    LET i == CHOOSE k \in 1..Len(scores) : scores[k][1] = p IN scores[i][2]

AddScore_overwrite(scores, p, weighted_score) ==
    IF InScores(scores, p)
    THEN [i \in 1..Len(scores) |->
            IF scores[i][1] = p THEN <<p, weighted_score>> ELSE scores[i]]
    ELSE Append(scores, <<p, weighted_score>>)

\* lines 149-151: a new key enters the dict at 0.0, then += weighted_score
AddScore(scores, p, weighted_score) ==
    IF InScores(scores, p)
    THEN [i \in 1..Len(scores) |->
            IF scores[i][1] = p THEN <<p, scores[i][2] + weighted_score>>
            ELSE scores[i]]
    ELSE Append(scores, <<p, weighted_score>>)

\* lines 143-151, in two-hundredths: similarity_score = 1 - distance / 2 is
\* (20 - distance) twentieths, times the weight in tenths
RECURSIVE Accumulate(_, _, _)
Accumulate(scores, rows, weight) ==
    IF rows = <<>> THEN scores
    ELSE LET similarity_score == 20 - Head(rows)[2]
             weighted_score == similarity_score * weight
         IN  Accumulate(AddScore(scores, Head(rows)[1], weighted_score),
                        Tail(rows), weight)

NextKey_no_skip(cats, k) == k

\* the next index of CATEGORY_KEYS from k on whose value is truthy (line 133)
RECURSIVE NextKey(_, _)
NextKey(cats, k) ==
    IF k > Len(CATEGORY_KEYS) THEN k
    ELSE IF Truthy(cats[CATEGORY_KEYS[k]]) THEN k
    ELSE NextKey(cats, k + 1)

\* lines 168-179 for a point and a place on one meridian: the haversine
\* distance is the arc between the two latitudes, 5 km for each unit
distance_km(lat, lon, place) == 5 * Abs(place.latitude - lat)

\* sorted(items, key=score, reverse=True) is stable: the pairs by descending
\* score, pairs of equal score in the order they have in `items`
RECURSIVE sorted_desc(_)
sorted_desc(items) ==
    IF items = <<>> THEN <<>>
    ELSE LET first == Head(items)
             rest == sorted_desc(Tail(items))
             k == Cardinality({i \in 1..Len(rest) : rest[i][2] > first[2]})
         IN  SubSeq(rest, 1, k) \o <<first>> \o SubSeq(rest, k + 1, Len(rest))

EffectiveLimit_always_default(lim) == recommendation_top_k

\* limit = limit or settings.recommendation_top_k (line 126); 0 stands for a
\* caller that passes None
EffectiveLimit(lim) == IF lim = 0 THEN recommendation_top_k ELSE lim

candidate_limit_k(lim) == lim

candidate_limit_5k(lim) == lim * 5

\* line 140: the number of candidates asked for in each category
candidate_limit(lim) == lim * 3

WithinRadius_exclusive(d, radius_km) == d < radius_km

\* line 181: the boundary is inside
WithinRadius(d, radius_km) == d <= radius_km

\* lines 154, 190, 198: the tuple recommend_places returns
ReturnValue == <<result, query>>

\* spring_integration.py line 12: the sum of the four weights, in
\* two-hundredths
RECURSIVE SumWeights(_)
SumWeights(k) ==
    IF k = 0 THEN 0 ELSE CATEGORY_WEIGHTS[CATEGORY_KEYS[k]] + SumWeights(k - 1)

MAX_RAW_SCORE == 20 * SumWeights(Len(CATEGORY_KEYS))

\* spring_integration.py lines 51-52: round(raw / MAX_RAW_SCORE * 100, 2), in
\* hundredths of a point, for raw in two-hundredths
to_absolute_score(raw) ==
    IF MAX_RAW_SCORE > 0
    THEN (2 * 10000 * raw + MAX_RAW_SCORE) \div (2 * MAX_RAW_SCORE)
    ELSE 0

\* recommend_places(db, cats, lim, loc) is entered, lines 126-129
Recommend(cats, lim, loc) ==
    /\ rpc = "idle"
    /\ rpc' = "loop"
    /\ query' = cats
    /\ limit_arg' = lim
    /\ limit' = EffectiveLimit(lim)
    /\ location_filter' = loc
    /\ key_index' = NextKey(cats, 1)
    /\ candidates' = NoCandidates
    /\ place_scores' = <<>>
    /\ result' = <<>>
    /\ UNCHANGED <<autoflush, places, store, ingestVars, placeVars, batchVars, raised, embed_log, search_log>>

\* lines 131-151 for one key with a truthy value
ScoreCategory ==
    /\ rpc = "loop"
    /\ key_index <= Len(CATEGORY_KEYS)
    /\ LET key == CATEGORY_KEYS[key_index]
           weight == CATEGORY_WEIGHTS[key]
           vector == embed_text(query[key])
       IN  /\ \E rows \in similar_places(key, vector, candidate_limit(limit)) :
                /\ place_scores' = Accumulate(place_scores, rows, weight)
                /\ candidates' = [candidates EXCEPT ![key] =
                                     [i \in 1..Len(rows) |-> rows[i][1]]]
           /\ embed_log' = Append(embed_log, <<key, query[key]>>)
           /\ search_log' = Append(search_log, <<key, candidate_limit(limit)>>)
    /\ key_index' = NextKey(query, key_index + 1)
    /\ UNCHANGED <<autoflush, places, store, ingestVars, placeVars, batchVars, rpc, query, limit_arg, limit,
                   location_filter, result, raised>>

ScoreCategoryFails_skips_category ==
    /\ rpc = "loop"
    /\ key_index <= Len(CATEGORY_KEYS)
    /\ raised' = "EmbeddingError"
    /\ key_index' = NextKey(query, key_index + 1)
    /\ embed_log' = Append(embed_log,
                           <<CATEGORY_KEYS[key_index], query[CATEGORY_KEYS[key_index]]>>)
    /\ UNCHANGED <<autoflush, places, store, ingestVars, placeVars, batchVars, rpc, query, limit_arg, limit,
                   location_filter, candidates, place_scores, result, search_log>>

\* line 137: embed_text raises, and the exception leaves recommend_places
ScoreCategoryFails ==
    /\ rpc = "loop"
    /\ key_index <= Len(CATEGORY_KEYS)
    /\ rpc' = "failed"
    /\ raised' = "EmbeddingError"
    /\ embed_log' = Append(embed_log,
                           <<CATEGORY_KEYS[key_index], query[CATEGORY_KEYS[key_index]]>>)
    /\ UNCHANGED <<autoflush, places, store, ingestVars, placeVars, batchVars, query, limit_arg, limit,
                   location_filter, key_index, candidates, place_scores, result,
                   search_log>>

ReturnEmpty_falls_through ==
    /\ rpc = "loop"
    /\ key_index > Len(CATEGORY_KEYS)
    /\ place_scores = <<>>
    /\ IF location_filter.present
          /\ ~({"latitude", "longitude"} \subseteq location_filter.keys)
       THEN rpc' = "failed" /\ raised' = "KeyError"
       ELSE rpc' = "returned" /\ UNCHANGED raised
    /\ result' = <<>>
    /\ UNCHANGED <<autoflush, places, store, ingestVars, placeVars, batchVars, query, limit_arg, limit,
                   location_filter, key_index, candidates, place_scores,
                   embed_log, search_log>>

\* lines 153-154: nothing was scored
ReturnEmpty ==
    /\ rpc = "loop"
    /\ key_index > Len(CATEGORY_KEYS)
    /\ place_scores = <<>>
    /\ rpc' = "returned"
    /\ result' = <<>>
    /\ UNCHANGED <<autoflush, places, store, ingestVars, placeVars, batchVars, query, limit_arg, limit,
                   location_filter, key_index, candidates, place_scores, raised,
                   embed_log, search_log>>

\* a filter applied to the first `limit` pairs by descending score only
GeoFilter_after_cut ==
    /\ rpc = "loop"
    /\ key_index > Len(CATEGORY_KEYS)
    /\ place_scores # <<>>
    /\ location_filter.present
    /\ {"latitude", "longitude"} \subseteq location_filter.keys
    /\ LET top == Take(sorted_desc(place_scores), limit)
           all_candidates == {p \in DOMAIN places : InScores(top, p)}
           radius_km == IF "radius_km" \in location_filter.keys
                        THEN location_filter.radius_km ELSE 10
           in_radius == {p \in all_candidates :
                            WithinRadius(distance_km(location_filter.latitude,
                                                     location_filter.longitude,
                                                     places[p]),
                                         radius_km)}
       IN  \E within \in Orderings(in_radius) :
              place_scores' =
                  [i \in 1..Len(within) |-> <<within[i], ScoreOf(place_scores, within[i])>>]
    /\ rpc' = "rank"
    /\ UNCHANGED <<autoflush, places, store, ingestVars, placeVars, batchVars, query, limit_arg, limit,
                   location_filter, key_index, candidates, result, raised,
                   embed_log, search_log>>

\* lines 157-184: the scored places are fetched, in an order the query does
\* not fix, and those within radius_km enter filtered_scores in the order
\* they were fetched in; radius_km defaults to 10.0 (line 164)
GeoFilter ==
    /\ rpc = "loop"
    /\ key_index > Len(CATEGORY_KEYS)
    /\ place_scores # <<>>
    /\ location_filter.present
    /\ {"latitude", "longitude"} \subseteq location_filter.keys
    /\ LET all_candidates == {p \in DOMAIN places : InScores(place_scores, p)}
           radius_km == IF "radius_km" \in location_filter.keys
                        THEN location_filter.radius_km ELSE 10
           in_radius == {p \in all_candidates :
                            WithinRadius(distance_km(location_filter.latitude,
                                                     location_filter.longitude,
                                                     places[p]),
                                         radius_km)}
       IN  \E within \in Orderings(in_radius) :
              place_scores' =
                  [i \in 1..Len(within) |-> <<within[i], ScoreOf(place_scores, within[i])>>]
    /\ rpc' = "rank"
    /\ UNCHANGED <<autoflush, places, store, ingestVars, placeVars, batchVars, query, limit_arg, limit,
                   location_filter, key_index, candidates, result, raised,
                   embed_log, search_log>>

\* lines 162-163: location_filter["latitude"] or location_filter["longitude"]
\* of a dict without that key raises KeyError
GeoFilterFails ==
    /\ rpc = "loop"
    /\ key_index > Len(CATEGORY_KEYS)
    /\ place_scores # <<>>
    /\ location_filter.present
    /\ ~({"latitude", "longitude"} \subseteq location_filter.keys)
    /\ rpc' = "failed"
    /\ raised' = "KeyError"
    /\ UNCHANGED <<autoflush, places, store, ingestVars, placeVars, batchVars, query, limit_arg, limit,
                   location_filter, key_index, candidates, place_scores, result,
                   embed_log, search_log>>

\* a ranking that stamps the Place rows it returns
Rank_stamps ==
    /\ \/ rpc = "rank"
       \/ /\ rpc = "loop"
          /\ key_index > Len(CATEGORY_KEYS)
          /\ place_scores # <<>>
          /\ ~location_filter.present
    /\ LET sorted_place_ids == Take(sorted_desc(place_scores), limit)
           top_place_ids == [i \in 1..Len(sorted_place_ids) |-> sorted_place_ids[i][1]]
       IN  /\ result' = SelectSeq(top_place_ids, LAMBDA p : p \in DOMAIN places)
           /\ places' = [p \in DOMAIN places |->
                            IF \E i \in 1..Len(top_place_ids) : top_place_ids[i] = p
                            THEN [places[p] EXCEPT !.updated_at = 1]
                            ELSE places[p]]
    /\ rpc' = "returned"
    /\ UNCHANGED <<autoflush, store, ingestVars, placeVars, batchVars, query, limit_arg, limit,
                   location_filter, key_index, candidates, place_scores, raised,
                   embed_log, search_log>>

\* lines 186-198: the first `limit` pairs by descending score; their Place
\* rows are fetched and put back in that order
Rank ==
    /\ \/ rpc = "rank"
       \/ /\ rpc = "loop"
          /\ key_index > Len(CATEGORY_KEYS)
          /\ place_scores # <<>>
          /\ ~location_filter.present
    /\ LET sorted_place_ids == Take(sorted_desc(place_scores), limit)
           top_place_ids == [i \in 1..Len(sorted_place_ids) |-> sorted_place_ids[i][1]]
       IN  result' = SelectSeq(top_place_ids, LAMBDA p : p \in DOMAIN places)
    /\ rpc' = "returned"
    /\ UNCHANGED <<autoflush, places, store, ingestVars, placeVars, batchVars, query, limit_arg, limit,
                   location_filter, key_index, candidates, place_scores, raised,
                   embed_log, search_log>>

\* recommendations.py line 33 and spring_integration.py line 48: the endpoint
\* unpacks three values from the tuple recommend_places returned
RecommendEndpoint ==
    /\ rpc = "returned"
    /\ location_filter.present =>
          {"latitude", "longitude", "radius_km"} \subseteq location_filter.keys
    /\ IF Len(ReturnValue) = 3
       THEN rpc' = "responded" /\ UNCHANGED raised
       ELSE rpc' = "failed" /\ raised' = "ValueError"
    /\ UNCHANGED <<autoflush, places, store, ingestVars, placeVars, batchVars, query, limit_arg, limit,
                   location_filter, key_index, candidates, place_scores, result,
                   embed_log, search_log>>

\* spring_integration.py line 33: payload.latitude of a PlaceRecommendRequest,
\* which declares query, promise_id and limit only, raises AttributeError
\* before recommend_places is called
recommend_places_for_spring ==
    /\ rpc = "idle"
    /\ rpc' = "failed"
    /\ raised' = "AttributeError"
    /\ UNCHANGED <<autoflush, places, store, ingestVars, placeVars, batchVars, query, limit_arg, limit,
                   location_filter, key_index, candidates, place_scores, result,
                   embed_log, search_log>>

\* LLMService.extract_categories_from_query, after the completion call
\* returned `data` (lines 108-126)
extract_categories_from_query(data) ==
    [key \in {"companion", "menu", "mood", "purpose"} |-> normalize_value(data[key])]

\* the answers the language model gives for the queries of this model
QueryAnswers ==
    { [companion |-> JStr(<<"a">>), menu |-> JStr(<<"a">>),
       mood |-> JNull, purpose |-> JNull],
      [companion |-> JStr(<<"b">>), menu |-> JStr(<<"c">>),
       mood |-> JStr(<<"a">>), purpose |-> JStr(<<"a">>)],
      [companion |-> JList(<<>>), menu |-> JNull,
       mood |-> JStr(<<>>), purpose |-> JNull],
      [companion |-> JNull, menu |-> JList(<< <<"a">>, <<"b">> >>),
       mood |-> JNull, purpose |-> JNum(7)] }

\* the CategoryInfo values a caller passes to recommend_places
Queries == {extract_categories_from_query(data) : data \in QueryAnswers}

\* the limits a caller passes (0: none) and the location filters: none, the
\* one the endpoints build (a centre with radius_km 10.0), or a dict without
\* the key latitude
Limits == {0, 1, 2}

Filters ==
    {NoFilter,
     [present |-> TRUE, keys |-> {"latitude", "longitude", "radius_km"},
      latitude |-> 0, longitude |-> 0, radius_km |-> 10],
     [present |-> TRUE, keys |-> {"longitude", "radius_km"},
      latitude |-> 0, longitude |-> 0, radius_km |-> 10]}

\* rows that ingestion can have stored when recommend_places is called
RowUniverse ==
    { PlaceEmbedding(1, "companion", <<"b">>, embed_text(<<"b">>)),
      PlaceEmbedding(1, "companion", <<"d">>, embed_text(<<"d">>)),
      PlaceEmbedding(1, "menu", <<"c">>, embed_text(<<"c">>)),
      PlaceEmbedding(2, "companion", <<"d">>, embed_text(<<"d">>)),
      PlaceEmbedding(2, "menu", <<"b">>, embed_text(<<"b">>)),
      PlaceEmbedding(3, "companion", <<"b">>, embed_text(<<"b">>)),
      PlaceEmbedding(3, "mood", <<"a">>, embed_text(<<"a">>)),
      PlaceEmbedding(4, "companion", <<"c">>, embed_text(<<"c">>)),
      PlaceEmbedding(4, "purpose", <<"a">>, embed_text(<<"a">>)),
      PlaceEmbedding(5, "companion", <<"a">>, embed_text(<<"a">>)),
      PlaceEmbedding(6, "companion", <<"h">>, embed_text(<<"h">>)) }

InitRec ==
    /\ autoflush = TRUE
    /\ places = Registry
    /\ store \in {SetToBag(rows) : rows \in SUBSET RowUniverse}
    /\ pc = [s \in Sessions |-> "idle"]
    /\ place_id = [s \in Sessions |-> 0]
    /\ categories = [s \in Sessions |-> NoCategories]
    /\ todo = [s \in Sessions |-> <<>>]
    /\ inserted = [s \in Sessions |-> 0]
    /\ skipped = [s \in Sessions |-> 0]
    /\ new = [s \in Sessions |-> EmptyBag]
    /\ flushed = [s \in Sessions |-> EmptyBag]
    /\ inactive = [s \in Sessions |-> FALSE]
    /\ error = [s \in Sessions |-> "none"]
    /\ calls = 0
    /\ embedded = [s \in Sessions |-> EmptyBag]
    /\ billed = EmptyBag
    /\ before = [s \in Sessions |-> EmptyBag]
    /\ last = NoCall
    /\ prev = [s \in Sessions |-> NoCall]
    /\ RecommendIdle

NextRec ==
    \/ \E cats \in Queries, lim \in Limits, loc \in Filters : Recommend(cats, lim, loc)
    \/ ScoreCategory
    \/ ScoreCategoryFails
    \/ ReturnEmpty
    \/ GeoFilter
    \/ GeoFilterFails
    \/ Rank
    \/ RecommendEndpoint
    \/ recommend_places_for_spring

SpecRec == InitRec /\ [][NextRec]_vars

\* ---------------------------------------------------------------- batches
\* the place ids a run is given (dict.fromkeys drops repeats)
BatchIds == {<<1>>, <<2>>, <<1, 2>>, <<2, 1>>}

\* the reviews one place can have: each has text or is blank
BatchReviews ==
    {<<>>} \cup {<<r>> : r \in {"text", "blank"}}
           \cup ({"text", "blank"} \X {"text", "blank"})

\* review_crawl_runner.py lines 57-64, generate_embeddings.py lines 65-77: a
\* run starts in a fresh session
StartBatch(kind, ids) ==
    /\ batch_pc = "idle"
    /\ pc["s1"] = "idle"
    /\ calls = 0
    /\ batch_kind' = kind
    /\ batch_ids' = ids
    /\ batch_pc' = "place"
    /\ UNCHANGED <<batch_reviews, batch_call, batch_summary, batch_failures>>
    /\ UNCHANGED <<autoflush, places, store, ingestVars, recommendVars, placeVars>>

\* the next place is taken up after the current one
NextPlace ==
    /\ batch_ids' = Tail(batch_ids)
    /\ batch_reviews' = <<>>
    /\ batch_pc' = "place"

\* review_crawl_runner.py lines 68, 74-78, generate_embeddings.py lines
\* 33-42: the reviews of the place are fetched; a place with none is passed
\* over
FetchReviews(reviews) ==
    /\ batch_pc = "place"
    /\ batch_ids # <<>>
    /\ IF reviews = <<>>
       THEN NextPlace /\ UNCHANGED batch_summary
       ELSE /\ batch_reviews' = reviews
            /\ batch_pc' = "review"
            /\ batch_summary' =
                  IF batch_kind = "crawl"
                  THEN [batch_summary EXCEPT !.places_processed = @ + 1]
                  ELSE batch_summary
            /\ UNCHANGED batch_ids
    /\ UNCHANGED <<batch_kind, batch_call, batch_failures>>
    /\ UNCHANGED <<autoflush, places, store, ingestVars, recommendVars, placeVars>>

\* review_crawl_runner.py lines 69-72: the review crawler fails for the
\* place; the failure is counted and the loop goes on
FetchReviewsFails ==
    /\ batch_pc = "place"
    /\ batch_kind = "crawl"
    /\ batch_ids # <<>>
    /\ NextPlace
    /\ batch_summary' = [batch_summary EXCEPT !.review_failures = @ + 1]
    /\ batch_failures' = batch_failures + 1
    /\ UNCHANGED <<batch_kind, batch_call>>
    /\ UNCHANGED <<autoflush, places, store, ingestVars, recommendVars, placeVars>>

\* the place is finished when its last review is
AfterReview ==
    IF Len(batch_reviews) = 1
    THEN /\ batch_pc' = "place"
         /\ batch_ids' = Tail(batch_ids)
         /\ batch_reviews' = <<>>
    ELSE /\ batch_pc' = "review"
         /\ batch_reviews' = Tail(batch_reviews)
         /\ UNCHANGED batch_ids

\* review_crawl_runner.py lines 82-84, generate_embeddings.py lines 45-47: a
\* review with no text is passed over
SkipBlank ==
    /\ batch_pc = "review"
    /\ Head(batch_reviews) = "blank"
    /\ AfterReview
    /\ UNCHANGED <<batch_kind, batch_call, batch_summary, batch_failures>>
    /\ UNCHANGED <<autoflush, places, store, ingestVars, recommendVars, placeVars>>

\* review_crawl_runner.py line 86, generate_embeddings.py line 50:
\* refresh_embeddings is about to be called with the review's text
TakeReview ==
    /\ batch_pc = "review"
    /\ Head(batch_reviews) = "text"
    /\ batch_pc' = "call"
    /\ batch_call' = calls
    /\ UNCHANGED <<batch_kind, batch_ids, batch_reviews, batch_summary, batch_failures>>
    /\ UNCHANGED <<autoflush, places, store, ingestVars, recommendVars, placeVars>>

\* refresh_embeddings runs in the batch's session for the current place
BatchIngest ==
    /\ batch_pc = "call"
    /\ \/ /\ calls = batch_call
          /\ \/ \E data \in LLMAnswers : Extract("s1", Head(batch_ids), data)
             \/ ExtractFails("s1", Head(batch_ids))
       \/ /\ calls > batch_call
          /\ \/ ExistsQuery("s1")
             \/ Embed("s1")
             \/ EmbedFails("s1")
             \/ Commit("s1")

\* review_crawl_runner.py lines 86-87, generate_embeddings.py lines 50-52:
\* the call returned (categories, inserted); the counters are advanced
ReviewIngested ==
    /\ batch_pc = "call"
    /\ calls > batch_call
    /\ pc["s1"] = "done"
    /\ AfterReview
    /\ batch_summary' =
          [batch_summary EXCEPT
              !.embeddings_created = @ + inserted["s1"],
              !.reviews_processed = @ + 1]
    /\ UNCHANGED <<batch_kind, batch_call, batch_failures>>
    /\ UNCHANGED <<autoflush, places, store, ingestVars, recommendVars, placeVars>>

\* refresh_embeddings raised. In crawl_reviews_for_places nothing catches the
\* exception (line 86 is outside the try of lines 67-72): the run ends and
\* the endpoint answers 500 (crawler.py lines 41-42). In
\* generate_embeddings_for_place lines 53-54 print the error and the loop goes
\* on with the same session, with no rollback
ReviewFails ==
    /\ batch_pc = "call"
    /\ calls > batch_call
    /\ pc["s1"] = "failed"
    /\ batch_failures' = batch_failures + 1
    /\ IF batch_kind = "crawl"
       THEN batch_pc' = "raised" /\ UNCHANGED <<batch_ids, batch_reviews>>
       ELSE AfterReview
    /\ UNCHANGED <<batch_kind, batch_call, batch_summary>>
    /\ UNCHANGED <<autoflush, places, store, ingestVars, recommendVars, placeVars>>

\* review_crawl_runner.py lines 91-95, generate_embeddings.py line 92: the
\* run returns its summary
ReturnSummary ==
    /\ batch_pc = "place"
    /\ batch_ids = <<>>
    /\ batch_pc' = "returned"
    /\ UNCHANGED <<batch_kind, batch_ids, batch_reviews, batch_call,
                   batch_summary, batch_failures>>
    /\ UNCHANGED <<autoflush, places, store, ingestVars, recommendVars, placeVars>>

\* get_db, or db.close() of generate_embeddings.py line 131, closes the
\* session after the run
BatchClose ==
    /\ batch_pc \in {"returned", "raised"}
    /\ Close("s1")

NextBatch ==
    \/ \E kind \in {"crawl", "generate"}, ids \in BatchIds : StartBatch(kind, ids)
    \/ \E reviews \in BatchReviews : FetchReviews(reviews)
    \/ FetchReviewsFails
    \/ SkipBlank
    \/ TakeReview
    \/ BatchIngest
    \/ ReviewIngested
    \/ ReviewFails
    \/ ReturnSummary
    \/ BatchClose

SpecBatch == Init /\ [][NextBatch]_vars

\* ------------------------------------------------------------ upsert_place
\* the PlaceCreate payloads of this model (places.py line 17)
PlaceData ==
    [id : {1, 7}, name : {"n", "m"}, category : {"c", "k"},
     origin_address : {"o", "q"}, latitude : {0, 3}, longitude : {0, 1}]

upsert_place_keeps_location(d) ==
    /\ upserts + crawls < MaxUpserts
    /\ upserts' = upserts + 1
    /\ upsert_data' = d
    /\ upsert_error' = "none"
    /\ places' =
          IF d.id \in DOMAIN places
          THEN [places EXCEPT ![d.id] =
                   [@ EXCEPT !.name = d.name, !.category = d.category,
                             !.origin_address = d.origin_address,
                             !.updated_at = upserts + 1]]
          ELSE places @@ (d.id :>
                   [name |-> d.name, category |-> d.category,
                    origin_address |-> d.origin_address, latitude |-> d.latitude,
                    longitude |-> d.longitude, updated_at |-> 0])
    /\ UNCHANGED <<autoflush, store, ingestVars, recommendVars, crawlVars, raceVars, batchVars>>

\* lines 33-47: the row of data["id"] gets the five fields and updated_at =
\* now (the number of the call stands for the clock), or a new row is added
\* with updated_at NULL (0); then commit
upsert_place(d) ==
    /\ upserts + crawls < MaxUpserts
    /\ upserts' = upserts + 1
    /\ upsert_data' = d
    /\ upsert_error' = "none"
    /\ places' =
          IF d.id \in DOMAIN places
          THEN [places EXCEPT ![d.id] =
                   [@ EXCEPT !.name = d.name, !.category = d.category,
                             !.origin_address = d.origin_address,
                             !.latitude = d.latitude, !.longitude = d.longitude,
                             !.updated_at = upserts + 1]]
          ELSE places @@ (d.id :>
                   [name |-> d.name, category |-> d.category,
                    origin_address |-> d.origin_address, latitude |-> d.latitude,
                    longitude |-> d.longitude, updated_at |-> 0])
    /\ UNCHANGED <<autoflush, store, ingestVars, recommendVars, crawlVars, raceVars, batchVars>>

\* lines 48-50: db.get or db.commit raises; rollback, and the exception goes on
upsert_place_fails(d) ==
    /\ upserts + crawls < MaxUpserts
    /\ upserts' = upserts + 1
    /\ upsert_data' = d
    /\ upsert_error' = "DBError"
    /\ UNCHANGED <<autoflush, places, store, ingestVars, recommendVars, crawlVars, raceVars, batchVars>>

\* ------------------------------------------------------- ingest_from_crawl
\* the records naver_crawl.py prints in this model: a known id with another
\* name and other coordinates, an unknown id twice with different data, a
\* record with no category and a record with no address
CrawlData ==
    { [place_id |-> 1, name |-> "m", category |-> "c", origin_address |-> "o",
       latitude |-> 3, longitude |-> 1],
      [place_id |-> 7, name |-> "n", category |-> "", origin_address |-> "o",
       latitude |-> 0, longitude |-> 0],
      [place_id |-> 7, name |-> "m", category |-> "k", origin_address |-> "q",
       latitude |-> 3, longitude |-> 1],
      [place_id |-> 8, name |-> "n", category |-> "c", origin_address |-> "",
       latitude |-> 0, longitude |-> 0] }

\* what fetch_places_from_cli can return: up to two records
CrawlResults ==
    {<<>>} \cup {<<d>> : d \in CrawlData} \cup (CrawlData \X CrawlData)

\* lines 77-84: the payload ingest_from_crawl hands to upsert_place
crawl_payload(place) ==
    [id |-> place.place_id, name |-> place.name,
     category |-> IF place.category # "" THEN place.category ELSE "etc",
     origin_address |-> place.origin_address,
     latitude |-> place.latitude, longitude |-> place.longitude]

\* lines 64-66: a record with no address is passed over without a count
Usable(place) == place.origin_address # ""

\* lines 73-75 read as written: a place whose id is in the table is skipped
Known(pl, place) == place.place_id \in DOMAIN pl

\* upsert_place (lines 33-47) as a function of the table
upserted(pl, d, now) ==
    IF d.id \in DOMAIN pl
    THEN [pl EXCEPT ![d.id] =
             [@ EXCEPT !.name = d.name, !.category = d.category,
                       !.origin_address = d.origin_address,
                       !.latitude = d.latitude, !.longitude = d.longitude,
                       !.updated_at = now]]
    ELSE pl @@ (d.id :>
             [name |-> d.name, category |-> d.category,
              origin_address |-> d.origin_address, latitude |-> d.latitude,
              longitude |-> d.longitude, updated_at |-> 0])

\* lines 54-86: the loop over the first n records; the table and the two
\* counters after it
RECURSIVE crawl_loop(_, _, _)
crawl_loop(pl, recs, n) ==
    IF n = 0
    THEN [places |-> pl, places_ingested |-> 0, places_skipped |-> 0]
    ELSE LET acc == crawl_loop(pl, recs, n - 1)
             place == recs[n]
         IN  IF ~Usable(place) THEN acc
             ELSE IF Known(acc.places, place)
             THEN [acc EXCEPT !.places_skipped = @ + 1]
             ELSE [acc EXCEPT !.places = upserted(@, crawl_payload(place), 1),
                              !.places_ingested = @ + 1]

\* lines 45-91: a run that returns its summary
ingest_from_crawl(recs) ==
    /\ upserts + crawls < MaxUpserts
    /\ crawls' = crawls + 1
    /\ crawled' = recs
    /\ crawl_error' = "none"
    /\ LET end == crawl_loop(places, recs, Len(recs))
       IN  /\ places' = end.places
           /\ crawl_summary' = [places_fetched |-> end.places_ingested,
                                places_skipped |-> end.places_skipped]
    /\ UNCHANGED <<autoflush, store, ingestVars, recommendVars, batchVars,
                   raceVars, upserts, upsert_data, upsert_error>>

\* line 50 and lines 23-33: the crawler process fails, RuntimeError leaves
\* ingest_from_crawl before the loop
ingest_from_crawl_fails ==
    /\ upserts + crawls < MaxUpserts
    /\ crawls' = crawls + 1
    /\ crawled' = <<>>
    /\ crawl_error' = "RuntimeError"
    /\ UNCHANGED <<autoflush, places, store, ingestVars, recommendVars, batchVars,
                   raceVars, upserts, upsert_data, upsert_error, crawl_summary>>

NextPlaces ==
    \/ \E d \in PlaceData : upsert_place(d)
    \/ \E d \in PlaceData : upsert_place_fails(d)
    \/ \E recs \in CrawlResults : ingest_from_crawl(recs)
    \/ ingest_from_crawl_fails

SpecPlaces == Init /\ [][NextPlaces]_vars

\* ------------------------------------------------- concurrent upsert_place
\* the payloads of the concurrent calls
RaceData ==
    {d \in PlaceData : d.category = "c" /\ d.origin_address = "o" /\ d.longitude = 0}

PrimaryKeyViolation_off(id, pl) == FALSE

\* place.py line 14: id is the primary key; the INSERT of a row whose id is
\* in the table fails
PrimaryKeyViolation(id, pl) == id \in DOMAIN pl

\* lines 34-44: db.get, then either the setattr loop on the row found or
\* db.add of a new Place
upsert_get(s, d) ==
    /\ up_pc[s] \in {"idle", "done", "failed"}
    /\ upserts + crawls < MaxUpserts
    /\ upserts' = upserts + 1
    /\ up_pc' = [up_pc EXCEPT ![s] = "got"]
    /\ up_data' = [up_data EXCEPT ![s] = d]
    /\ up_place' = [up_place EXCEPT ![s] = d.id \in DOMAIN places]
    /\ up_pending' = [up_pending EXCEPT ![s] = d.id \notin DOMAIN places]
    /\ up_error' = [up_error EXCEPT ![s] = "none"]
    /\ UNCHANGED <<autoflush, places, store, ingestVars, recommendVars,
                   upsert_data, upsert_error, crawlVars, batchVars>>

\* lines 45-50: db.commit flushes the UPDATE or the INSERT and commits; an
\* INSERT of an id that another call has committed meanwhile raises
\* IntegrityError, and the handler rolls the session back and raises
upsert_commit(s) ==
    /\ up_pc[s] = "got"
    /\ LET d == up_data[s]
       IN  IF ~up_place[s] /\ PrimaryKeyViolation(d.id, places)
           THEN /\ up_pc' = [up_pc EXCEPT ![s] = "failed"]
                /\ up_error' = [up_error EXCEPT ![s] = "IntegrityError"]
                /\ UNCHANGED places
           ELSE /\ up_pc' = [up_pc EXCEPT ![s] = "done"]
                /\ places' = IF up_place[s]
                              THEN upserted(places, d, upserts)
                              ELSE (d.id :> [name |-> d.name, category |-> d.category,
                                             origin_address |-> d.origin_address,
                                             latitude |-> d.latitude,
                                             longitude |-> d.longitude,
                                             updated_at |-> 0]) @@ places
                /\ UNCHANGED up_error
    /\ up_pending' = [up_pending EXCEPT ![s] = FALSE]
    /\ UNCHANGED <<autoflush, store, ingestVars, recommendVars, upserts,
                   upsert_data, upsert_error, crawlVars, batchVars,
                   up_data, up_place>>

\* lines 45, 48-50: the connection fails at db.commit; rollback and raise
upsert_commit_fails(s) ==
    /\ up_pc[s] = "got"
    /\ up_pc' = [up_pc EXCEPT ![s] = "failed"]
    /\ up_error' = [up_error EXCEPT ![s] = "OperationalError"]
    /\ up_pending' = [up_pending EXCEPT ![s] = FALSE]
    /\ UNCHANGED <<autoflush, places, store, ingestVars, recommendVars, upserts,
                   upsert_data, upsert_error, crawlVars, batchVars,
                   up_data, up_place>>

NextRace ==
    \/ \E s \in Sessions, d \in RaceData : upsert_get(s, d)
    \/ \E s \in Sessions : upsert_commit(s)
    \/ \E s \in Sessions : upsert_commit_fails(s)

SpecRace == Init /\ [][NextRace]_vars

\* ------------------------------------------------------------- properties
Returned(s) == pc[s] \in {"done", "failed"}

\* the distinct tokens of a category value: split on commas, trimmed, non-empty
TokenSet(value) ==
    IF value = None THEN {}
    ELSE {strip(part) : part \in {split(value)[i] : i \in 1..Len(split(value))}}
            \ {<<>>}

\* C1: in every reachable state, whatever the interleaving of the ingest calls,
\* no two rows of review_embeddings share (place_id, category, value_text).
C1_UniqueTriples ==
    /\ BagCardinality(store) = Cardinality(Triples(store))
    /\ \A row \in BagToSet(store) : CopiesIn(row, store) = 1

\* two sessions embedded the same triple for the same place concurrently, one
\* committed it and the other one's INSERT met the unique constraint
C1_Witness ==
    \E s, t \in Sessions :
        /\ s # t
        /\ pc[s] = "done" /\ pc[t] = "failed" /\ error[t] = "IntegrityError"
        /\ place_id[s] = place_id[t]
        /\ BagToSet(embedded[s]) \cap BagToSet(embedded[t]) \cap Triples(store) # {}

\* C2: two ingest calls for the same place that both embedded the same token,
\* which was stored when neither began, both return without an exception, one
\* with inserted = 1 and the other with inserted = 0 and skipped = 1.
C2_RaceLoserSkips ==
    \A s, t \in Sessions :
        ( /\ s # t
          /\ pc[s] = "done" /\ Returned(t)
          /\ error[t] \notin {"ExtractionError", "EmbeddingError",
                              "PendingRollbackError"}
          /\ place_id[s] = place_id[t]
          /\ Len(todo[s]) = 0 /\ Cardinality(BagToSet(embedded[s])) = 1
          /\ embedded[s] = embedded[t]
          /\ BagToSet(embedded[s]) \cap Triples(before[s]) = {}
          /\ BagToSet(embedded[t]) \cap Triples(before[t]) = {} )
        => /\ pc[t] = "done"
           /\ inserted[s] = 1 /\ inserted[t] = 0 /\ skipped[t] = 1

\* everything of session s that a step of s changes
Local(s) == <<pc[s], todo[s], inserted[s], skipped[s], new[s], flushed[s],
              inactive[s], error[s], embedded[s]>>

\* C3: no step of an ingest call other than its successful return changes the
\* table, so a call that fails partway (its embed_text or its flush raises)
\* returns with the table as it was: none of the rows it added is stored.
C3_FailedCallWritesNothing ==
    [][\A s \in Sessions :
          (pc[s] \in {"loop", "embed"} /\ Local(s)' # Local(s) /\ pc'[s] # "done")
          => store' = store]_vars

\* a call failed at the embedding of a menu token after it had added its
\* companion row, and the table is as it was when the call began
C3_Witness ==
    \E s \in Sessions :
        /\ pc[s] = "failed" /\ error[s] = "EmbeddingError"
        /\ todo[s] # <<>> /\ Head(todo[s])[1] = "menu"
        /\ \E tr \in BagToSet(embedded[s]) : tr[2] = "companion"
        /\ store = before[s]
        /\ BagToSet(embedded[s]) \cap Triples(store) = {}

\* the number of (category, distinct token) pairs of a CategoryInfo
RECURSIVE DistinctTokens(_, _)
DistinctTokens(cats, k) ==
    IF k = 0 THEN 0
    ELSE DistinctTokens(cats, k - 1) + Cardinality(TokenSet(cats[CATEGORY_KEYS[k]]))

\* C4: a call that returns right after a successful call for the same place
\* and the same categories, which inserted every distinct token extracted, has
\* inserted = 0 and skipped = the first call's inserted, and leaves the table
\* as it found it.
C4_SecondIngestIsNoOp ==
    \A s \in Sessions :
        ( /\ pc[s] = "done" /\ last.by = s
          /\ prev[s].ok
          /\ prev[s].inserted = DistinctTokens(categories[s], Len(CATEGORY_KEYS))
          /\ prev[s].place_id = place_id[s]
          /\ prev[s].categories = categories[s] )
        => /\ inserted[s] = 0
           /\ skipped[s] = prev[s].inserted
           /\ store = before[s]

\* C5: the first ingest call made, on a place that holds no row of a category
\* for which a value was extracted, returns without an exception, and the rows
\* then stored for the place and the category are as many as the distinct
\* tokens of the extracted value.
C5_OneEntryPerDistinctToken ==
    \A s \in Sessions, key \in Keys :
        ( /\ Returned(s) /\ last.by = s /\ calls = 1
          /\ Truthy(categories[s][key])
          /\ error[s] \notin {"ExtractionError", "EmbeddingError",
                              "PendingRollbackError"}
          /\ Entries(before[s], place_id[s], key) = {} )
        => /\ pc[s] = "done"
           /\ Cardinality(Entries(store, place_id[s], key))
                 = Cardinality(TokenSet(categories[s][key]))

\* C6: when the calls run one after the other, embed_text is never called for
\* a triple that is stored, and the calls that returned called it at most once
\* for each triple.
C6_EmbedOncePerTriple ==
    /\ \A s \in Sessions :
          pc[s] = "embed" =>
              <<place_id[s], Head(todo[s])[1], Head(todo[s])[2]>>
                  \notin Triples(store)
    /\ \A tr \in BagToSet(billed) : CopiesIn(tr, billed) = 1

\* a call returned having skipped every token it visited, with no embed_text
\* call, after an earlier call had embedded and stored them
C6_Witness ==
    \E s \in Sessions :
        /\ pc[s] = "done" /\ last.by = s
        /\ skipped[s] > 0 /\ embedded[s] = EmptyBag
        /\ \A key \in Keys : TokenSet(categories[s][key])
               \subseteq {tr[3] : tr \in {x \in BagToSet(billed) :
                                             x[1] = place_id[s] /\ x[2] = key}}

\* C7: the step in which extract_categories raises writes nothing: the table
\* and the session are as before, and the call has made no embed_text call.
C7_ExtractionFailureWritesNothing ==
    [][\A s \in Sessions :
          (calls' = calls + 1 /\ pc'[s] = "failed" /\ error'[s] = "ExtractionError"
              /\ Local(s)' # Local(s))
          => /\ store' = store
             /\ new' = new /\ flushed' = flushed
             /\ embedded'[s] = EmptyBag /\ inserted'[s] = 0]_vars

\* extract_categories raised in a session that still held a pending row of an
\* earlier failed call, and the row is not in the table
C7_Witness ==
    \E s \in Sessions :
        /\ pc[s] = "failed" /\ error[s] = "ExtractionError"
        /\ new[s] # EmptyBag
        /\ Triples(new[s]) \cap Triples(store) = {}
        /\ embedded[s] = EmptyBag

\* the ids of place_scores, and of a sequence
ScoredIds(scores) == {scores[i][1] : i \in 1..Len(scores)}

Range(seq) == {seq[i] : i \in 1..Len(seq)}

\* weight(category) x (1 - distance / 2) of place p in the category of index k,
\* in two-hundredths, when p is among the candidates fetched for it; else 0
Contribution(p, k) ==
    LET key == CATEGORY_KEYS[k]
    IN  IF Truthy(query[key]) /\ p \in Range(candidates[key])
        THEN CATEGORY_WEIGHTS[key]
                * (20 - BestDistance(key, p, embed_text(query[key])))
        ELSE 0

\* the sum of the contributions of the categories of index below k
RECURSIVE SumBelow(_, _)
SumBelow(p, k) == IF k <= 1 THEN 0 ELSE SumBelow(p, k - 1) + Contribution(p, k - 1)

\* the state of the example of the weighted ranking: query companion and menu,
\* place 1 with similarities 0.9 and 0.5, place 2 with 0.3 and 0.9
WeightedRankingExample ==
    /\ Truthy(query["companion"]) /\ Truthy(query["menu"])
    /\ ~Truthy(query["mood"]) /\ ~Truthy(query["purpose"])
    /\ \A p \in {1, 2}, key \in {"companion", "menu"} : Entries(store, p, key) # {}
    /\ BestDistance("companion", 1, embed_text(query["companion"])) = 2
    /\ BestDistance("menu", 1, embed_text(query["menu"])) = 10
    /\ BestDistance("companion", 2, embed_text(query["companion"])) = 14
    /\ BestDistance("menu", 2, embed_text(query["menu"])) = 2

Before(seq, a, b) ==
    \E i, j \in 1..Len(seq) : i < j /\ seq[i] = a /\ seq[j] = b

\* C8: the score recommend_places holds for a place is the sum, over the
\* query's truthy categories scored so far in which the place was among the
\* rows fetched, of weight x (1 - distance / 2); a place in no fetched row has
\* no score. In the example place 1 scores 1.30 (260), place 2 scores 1.02
\* (204) and place 1 is returned before place 2.
C8_WeightedSum ==
    /\ rpc = "loop" =>
          \A p \in DOMAIN places :
              /\ InScores(place_scores, p) <=>
                    \E k \in 1..(key_index - 1) :
                        /\ k <= Len(CATEGORY_KEYS)
                        /\ p \in Range(candidates[CATEGORY_KEYS[k]])
              /\ InScores(place_scores, p) =>
                    ScoreOf(place_scores, p) = SumBelow(p, key_index)
    /\ rpc \in {"rank", "returned"} =>
          \A p \in ScoredIds(place_scores) :
              ScoreOf(place_scores, p) = SumBelow(p, Len(CATEGORY_KEYS) + 1)
    /\ (rpc = "returned" /\ WeightedRankingExample /\ {1, 2} \subseteq Range(result)) =>
          /\ ScoreOf(place_scores, 1) = 260
          /\ ScoreOf(place_scores, 2) = 204
          /\ Before(result, 1, 2)

\* the example was run: places 1 and 2 are returned, place 1 first
C8_Witness ==
    /\ rpc = "returned"
    /\ WeightedRankingExample
    /\ Before(result, 1, 2)
    /\ ScoreOf(place_scores, 1) = 260 /\ ScoreOf(place_scores, 2) = 204

\* C9: the places are returned by descending score, and places of equal score
\* by ascending place id.
C9_RankedWithIdTieBreak ==
    rpc = "returned" =>
        \A i, j \in 1..Len(result) :
            i < j =>
                \/ ScoreOf(place_scores, result[i]) > ScoreOf(place_scores, result[j])
                \/ /\ ScoreOf(place_scores, result[i]) = ScoreOf(place_scores, result[j])
                   /\ result[i] < result[j]

\* C10: the local limit is the caller's limit, or 5 when the caller passes
\* none; at most `limit` places are returned, none twice, and no scored place
\* that passed the geo filter and was left out has a higher score than a
\* returned one.
C10_TopK ==
    /\ rpc \in {"loop", "rank", "returned"} =>
          limit = (IF limit_arg = 0 THEN 5 ELSE limit_arg)
    /\ rpc = "returned" =>
          /\ Len(result) <= (IF limit_arg = 0 THEN 5 ELSE limit_arg)
          /\ \A i, j \in 1..Len(result) : i # j => result[i] # result[j]
          /\ Range(result) \subseteq ScoredIds(place_scores)
          /\ \A p \in ScoredIds(place_scores) \ Range(result), q \in Range(result) :
                ScoreOf(place_scores, p) <= ScoreOf(place_scores, q)

\* a call with limit 2 left out a place that had passed the geo filter
C10_Witness ==
    /\ rpc = "returned"
    /\ location_filter.present
    /\ limit_arg = 2 /\ Len(result) = 2
    /\ ScoredIds(place_scores) \ Range(result) # {}

\* the places scored by the loop, before any filter
AllCandidates == UNION {Range(candidates[key]) : key \in Keys}

\* C11: with a location filter, every place returned lies within radius_km of
\* the centre, the places kept are scored places, and a scored place exactly
\* radius_km away is kept.
C11_GeoFilterInclusive ==
    (rpc \in {"rank", "returned"} /\ location_filter.present) =>
        /\ \A p \in Range(result) :
              distance_km(location_filter.latitude, location_filter.longitude,
                          places[p]) <= location_filter.radius_km
        /\ ScoredIds(place_scores) \subseteq AllCandidates
        /\ \A p \in AllCandidates :
              distance_km(location_filter.latitude, location_filter.longitude,
                          places[p]) = location_filter.radius_km
                  => p \in ScoredIds(place_scores)

\* place 2, exactly 10 km from the centre, is returned, and place 3, 15 km
\* away, was scored and dropped
C11_Witness ==
    /\ rpc = "returned"
    /\ location_filter.present
    /\ distance_km(location_filter.latitude, location_filter.longitude, places[2])
          = location_filter.radius_km
    /\ 2 \in Range(result)
    /\ 3 \in AllCandidates \ ScoredIds(place_scores)

\* every field of the query is None or the empty string
AllEmpty(cats) == \A key \in Keys : ~Truthy(cats[key])

\* C12: a call whose query has no truthy field makes no embed_text call, runs
\* no similarity query, raises nothing inside recommend_places, and its next
\* step returns the empty list.
C12_EmptyQueryReturnsEmpty ==
    /\ [](AllEmpty(query) =>
            /\ embed_log = <<>> /\ search_log = <<>>
            /\ result = <<>>
            /\ raised \notin {"EmbeddingError", "KeyError"}
            /\ rpc # "rank")
    /\ [][(rpc = "loop" /\ AllEmpty(query)) =>
            (rpc' = "returned" /\ result' = <<>>)]_vars

\* a call with companion "" and the other fields None returned, over a table
\* that holds rows, with a location filter
C12_Witness ==
    /\ rpc = "returned"
    /\ query["companion"] = <<>>
    /\ AllEmpty(query)
    /\ store # EmptyBag
    /\ location_filter.present
    /\ result = <<>> /\ embed_log = <<>>

\* the query has a truthy field, and the table holds no row of any category
\* for which the query has one
NoMatch ==
    /\ ~AllEmpty(query)
    /\ \A key \in Keys :
          Truthy(query[key]) => {row \in BagToSet(store) : row.category = key} = {}

\* C13: when no stored row matches a truthy category of the query, nothing is
\* scored, no error comes from the ranking or the location filter, and once
\* the loop is over the call returns the empty list.
C13_NoMatchReturnsEmpty ==
    /\ [](NoMatch =>
            /\ place_scores = <<>> /\ result = <<>>
            /\ raised # "KeyError"
            /\ rpc # "rank")
    /\ [][(rpc = "loop" /\ key_index > Len(CATEGORY_KEYS) /\ NoMatch) =>
            (rpc' = "returned" /\ result' = <<>> /\ raised' = "none")]_vars

\* a call with a truthy category and a location filter returned the empty
\* list over the empty table, after calling embed_text
C13_Witness ==
    /\ rpc = "returned"
    /\ NoMatch
    /\ store = EmptyBag
    /\ location_filter.present
    /\ embed_log # <<>>
    /\ result = <<>> /\ raised = "none"

\* C14: recommend_places returns three values (the places, their scores, the
\* categories), and no endpoint fails while building its filter or unpacking
\* that result.
C14_ThreeValuesEndpointsComplete ==
    /\ rpc = "returned" => Len(ReturnValue) = 3
    /\ raised \notin {"ValueError", "AttributeError"}

\* the distances from query_vector of the rows of place p in `category`
DistancesOf(category, p, query_vector) ==
    {2 * Abs(row.embedding - query_vector) :
        row \in {r \in BagToSet(store) : r.place_id = p /\ r.category = category}}

\* rows is what nearest_per_place may answer: places with a row of the
\* category, each once, with its least distance, by ascending distance, lim of
\* them or all when fewer exist, and no place left out is nearer than one
\* listed
NearestPerPlace(rows, category, query_vector, lim) ==
    LET holders == {p \in DOMAIN places : DistancesOf(category, p, query_vector) # {}}
        listed == {rows[i][1] : i \in 1..Len(rows)}
    IN  /\ listed \subseteq holders
        /\ \A i, j \in 1..Len(rows) : i < j =>
              rows[i][1] # rows[j][1] /\ rows[i][2] <= rows[j][2]
        /\ \A i \in 1..Len(rows) :
              /\ rows[i][2] \in DistancesOf(category, rows[i][1], query_vector)
              /\ \A d \in DistancesOf(category, rows[i][1], query_vector) :
                    rows[i][2] <= d
        /\ Len(rows) = (IF Cardinality(holders) < lim THEN Cardinality(holders) ELSE lim)
        /\ \A p \in holders \ listed, i \in 1..Len(rows) :
              \A d \in DistancesOf(category, p, query_vector) : rows[i][2] <= d

\* C15: every answer of the similarity query of a truthy category lists only
\* places with a row of that category, each once with the least distance of
\* its rows, by ascending distance, the candidate limit of them or all when
\* fewer exist, none farther than a place left out; and the rows a category
\* was scored with are the ids of such an answer.
C15_NearestPerPlace ==
    rpc \in {"loop", "rank", "returned"} =>
        \A k \in 1..Len(CATEGORY_KEYS) :
            LET key == CATEGORY_KEYS[k]
                answers == similar_places(key, embed_text(query[key]), 3 * limit)
            IN  Truthy(query[key]) =>
                    /\ \A rows \in answers :
                          NearestPerPlace(rows, key, embed_text(query[key]), 3 * limit)
                    /\ k < key_index =>
                          \E rows \in answers :
                              candidates[key] = [i \in 1..Len(rows) |-> rows[i][1]]

\* the companion category was scored with three of six places that hold a
\* companion row, among them place 1, which holds two
C15_Witness ==
    /\ rpc = "loop"
    /\ key_index > 1
    /\ Truthy(query["companion"])
    /\ Len(candidates["companion"]) = 3
    /\ Cardinality({p \in DOMAIN places : Entries(store, p, "companion") # {}}) = 6
    /\ Cardinality(Entries(store, 1, "companion")) = 2
    /\ 1 \in Range(candidates["companion"])

\* the (key, x) pairs of the truthy categories of index below k, in the order
\* of CATEGORY_KEYS, x being the whole value or the number n
RECURSIVE CallsBelow(_, _, _)
CallsBelow(k, whole, n) ==
    IF k <= 1 THEN <<>>
    ELSE LET key == CATEGORY_KEYS[k - 1]
         IN  CallsBelow(k - 1, whole, n)
                \o (IF Truthy(query[key])
                    THEN << <<key, IF whole THEN query[key] ELSE n>> >>
                    ELSE <<>>)

\* C16: while recommend_places runs and after it returned, embed_text has
\* been called once for each truthy category handled so far, with the whole
\* value of the field, and the similarity query once for each, with the limit
\* 3 x k, k being the caller's limit or 5.
C16_OneEmbedAndThreeK ==
    rpc \in {"loop", "rank", "returned"} =>
        /\ embed_log = CallsBelow(key_index, TRUE, 0)
        /\ search_log = CallsBelow(key_index, FALSE,
                                   3 * (IF limit_arg = 0 THEN 5 ELSE limit_arg))

\* a call with limit 2 whose menu is "a, b" returned after one embed_text call
\* with "a, b" and one with the purpose, each followed by a query for 6 rows
C16_Witness ==
    /\ rpc = "returned"
    /\ limit_arg = 2
    /\ query["menu"] = <<"a", ",", " ", "b">>
    /\ embed_log = << <<"menu", <<"a", ",", " ", "b">> >>, <<"purpose", <<"7">> >> >>
    /\ search_log = << <<"menu", 6>>, <<"purpose", 6>> >>
    /\ result # <<>>

\* the location filter is a dict that lacks the key latitude or longitude
Malformed(loc) == loc.present /\ ~({"latitude", "longitude"} \subseteq loc.keys)

\* C17: a call with a location filter that lacks latitude or longitude, in
\* which no embed_text call failed, ends by returning what it returns without
\* a filter: the first `limit` scored places by descending score.
C17_MalformedFilterIgnored ==
    (Malformed(location_filter) /\ raised # "EmbeddingError"
        /\ rpc \in {"returned", "failed"}) =>
        /\ raised # "KeyError"
        /\ Range(result) \subseteq ScoredIds(place_scores)
        /\ Len(result) =
              (IF Len(place_scores) < limit THEN Len(place_scores) ELSE limit)

\* C18: once embed_text has failed for a category, the call has ended with
\* the exception and has returned no list, whatever the other categories
\* had scored.
C18_EmbedFailureAborts ==
    raised = "EmbeddingError" => (rpc = "failed" /\ result = <<>>)

\* embed_text failed for a later category after an earlier one had scored
\* places
C18_Witness ==
    /\ raised = "EmbeddingError"
    /\ rpc = "failed"
    /\ place_scores # <<>>
    /\ Len(embed_log) > 1

\* C19: every field of the CategoryInfo the extractor yields is None or a
\* non-empty string, never the empty string.
C19_NullOrNonEmpty ==
    \A key \in Keys : query[key] # <<>>

\* the fields of a row of places that upsert_place is given
PlaceFields(row) ==
    [name |-> row.name, category |-> row.category,
     origin_address |-> row.origin_address, latitude |-> row.latitude,
     longitude |-> row.longitude]

CrawledFields(place) ==
    [name |-> place.name, category |-> place.category,
     origin_address |-> place.origin_address, latitude |-> place.latitude,
     longitude |-> place.longitude]

\* C21: after an ingest_from_crawl run that returns, every place whose id was
\* in the registry and for which the crawl returned a usable record with a
\* category carries the name, category, address and coordinates of the last
\* such record.
C21_CrawlUpdatesKnownPlace ==
    [][(crawls' = crawls + 1 /\ crawl_error' = "none") =>
          \A i \in 1..Len(crawled') :
             ( /\ crawled'[i].place_id \in DOMAIN places
               /\ Usable(crawled'[i])
               /\ crawled'[i].category # ""
               /\ \A j \in (i + 1)..Len(crawled') :
                     crawled'[j].place_id # crawled'[i].place_id )
             => PlaceFields(places'[crawled'[i].place_id]) =
                   CrawledFields(crawled'[i])]_vars

ReportedFailures ==
    IF batch_kind = "crawl" THEN batch_summary.review_failures ELSE 0

\* C23: a batch run is never ended by the failure of one review or place,
\* and the summary it returns counts every failure that happened in it.
C23_BatchGoesOn ==
    /\ batch_pc # "raised"
    /\ batch_pc = "returned" => ReportedFailures = batch_failures

\* the weights of the categories of the query that have a value, summed, in
\* tenths
RECURSIVE QueryWeight(_, _)
QueryWeight(cats, k) ==
    IF k = 0 THEN 0
    ELSE (IF Truthy(cats[CATEGORY_KEYS[k]])
          THEN CATEGORY_WEIGHTS[CATEGORY_KEYS[k]] ELSE 0) + QueryWeight(cats, k - 1)

\* C24: every accumulated raw score is at least 0 and at most the summed
\* weights of the query's categories that have a value and have been scored
\* so far (each adds at most one weighted similarity per place), hence at
\* most the summed weights of all its categories that have a value, which is
\* at most 2.8 (560 two-hundredths); the absolute score computed from it
\* lies in 0..100 (0..10000 hundredths).
C24_ScoreBounds ==
    /\ QueryWeight(query, Len(CATEGORY_KEYS)) <= 28
    /\ \A i \in 1..Len(place_scores) :
          /\ place_scores[i][2] >= 0
          /\ key_index \in 1..(Len(CATEGORY_KEYS) + 1)
          /\ place_scores[i][2] <= 20 * QueryWeight(query, key_index - 1)
          /\ place_scores[i][2] <= 20 * QueryWeight(query, Len(CATEGORY_KEYS))
          /\ place_scores[i][2] <= 560
          /\ to_absolute_score(place_scores[i][2]) \in 0..10000

\* a call returned a place that matched two categories exactly: raw score
\* 1.8 of 2.8 possible, absolute score 64.29
C24_Witness ==
    /\ rpc = "returned"
    /\ result # <<>>
    /\ \E i \in 1..Len(place_scores) :
          /\ place_scores[i][1] = result[1]
          /\ place_scores[i][2] = 360
          /\ to_absolute_score(place_scores[i][2]) = 6429

\* the location filter has both coordinates
WellFormed == location_filter.present
                 /\ {"latitude", "longitude"} \subseteq location_filter.keys

\* the scored places that lie within the radius of the filter
ScoredWithin ==
    {p \in AllCandidates :
        distance_km(location_filter.latitude, location_filter.longitude,
                    places[p]) <= location_filter.radius_km}

\* C25: with a location filter, a call that returns hands back exactly
\* min(k, m) different places, m being the number of scored places within
\* the radius and k the effective limit.
C25_FilterBeforeCut ==
    (rpc = "returned" /\ WellFormed) =>
        /\ Len(result) = Min({limit, Cardinality(ScoredWithin)})
        /\ Cardinality(Range(result)) = Len(result)
        /\ Range(result) \subseteq ScoredWithin

\* k = 1, and a place outside the radius had a higher accumulated score than
\* the place returned
C25_Witness ==
    /\ rpc = "returned"
    /\ WellFormed
    /\ limit = 1
    /\ Len(result) = 1
    /\ \E p \in AllCandidates \ ScoredWithin :
          SumBelow(p, Len(CATEGORY_KEYS) + 1) > SumBelow(result[1], Len(CATEGORY_KEYS) + 1)

\* C26: in a batch run of generate_embeddings_for_place, the rows a
\* refresh_embeddings call commits are rows that this call added to the
\* session; a row added by an earlier call that failed is never committed.
C26_FailedRowsNeverCommitted ==
    [][(batch_kind = "generate" /\ pc["s1"] = "loop" /\ pc'["s1"] = "done") =>
          \A row \in BagToSet(store' (-) store) :
             BagIn(Triple(row), embedded["s1"])]_vars

\* C27: a refresh_embeddings call for place p that commits adds only rows of
\* place p whose category is one of the four keys, removes no row, and
\* leaves the registry of places as it was.
C27_IngestTouchesOnlyItsPlace ==
    [][\A s \in Sessions :
          (pc[s] = "loop" /\ pc'[s] = "done") =>
             /\ \A row \in BagToSet(store' (-) store) :
                   /\ row.place_id = place_id[s]
                   /\ row.category \in Keys
             /\ store \sqsubseteq store'
             /\ places' = places]_vars

\* C28: no step of a recommend call, whether the call goes on to return
\* places, to return the empty list or to fail, changes the embedding store
\* or the registry of places.
C28_RecommendWritesNothing ==
    [][store' = store /\ places' = places]_vars

\* a call over a store with rows has returned places
C28_Witness ==
    /\ rpc = "returned"
    /\ result # <<>>
    /\ store # EmptyBag
    /\ places = Registry

\* the places with a row in the category
PlacesOf(key) == {row.place_id : row \in {r \in BagToSet(store) : r.category = key}}

\* the candidates fetched for the category are among its 3 x k nearest places
Nearest3k(key) ==
    /\ Len(candidates[key]) <= 3 * limit
    /\ Range(candidates[key]) \subseteq PlacesOf(key)
    /\ Len(candidates[key]) < 3 * limit => Range(candidates[key]) = PlacesOf(key)
    /\ \A p \in Range(candidates[key]), q \in PlacesOf(key) \ Range(candidates[key]) :
          BestDistance(key, p, embed_text(query[key]))
             <= BestDistance(key, q, embed_text(query[key]))

\* C29: every place a call returns is in the registry and was fetched among
\* the 3 x k nearest places of a category of the query that has a value; a
\* place fetched for no category is not returned.
C29_ReturnedWereCandidates ==
    rpc = "returned" =>
        /\ \A key \in Keys :
              IF Truthy(query[key]) THEN Nearest3k(key) ELSE candidates[key] = <<>>
        /\ \A p \in Range(result) :
              /\ p \in DOMAIN places
              /\ \E key \in Keys : Truthy(query[key]) /\ p \in Range(candidates[key])

\* a call with a location filter: fewer than k places are returned although a
\* place within the radius has a row in a queried category; it was not among
\* the 3 x k nearest of any category
C29_Witness ==
    /\ rpc = "returned"
    /\ WellFormed
    /\ Len(result) < limit
    /\ \E key \in Keys : \E p \in PlacesOf(key) :
          /\ Truthy(query[key])
          /\ p \notin AllCandidates
          /\ distance_km(location_filter.latitude, location_filter.longitude,
                         places[p]) <= location_filter.radius_km

\* both sessions have finished a call for the same id, which the registry
\* did not have at the start, and neither lost its connection
RaceOver(s, t) ==
    /\ s # t
    /\ up_pc[s] \in {"done", "failed"} /\ up_pc[t] \in {"done", "failed"}
    /\ up_data[s].id = up_data[t].id
    /\ up_data[s].id \notin DOMAIN Registry
    /\ up_error[s] # "OperationalError" /\ up_error[t] # "OperationalError"

\* C30: when two upsert_place calls for the same id, unknown at the start,
\* have both finished, the registry has a row of that id with the data of a
\* call that returned; when both found no row, exactly one returned and the
\* other raised IntegrityError; a call that raised has nothing pending in
\* its session.
C30_InsertRace ==
    /\ \A s, t \in Sessions :
          RaceOver(s, t) =>
             /\ up_data[s].id \in DOMAIN places
             /\ \E w \in {s, t} :
                   /\ up_pc[w] = "done"
                   /\ \A f \in {"name", "category", "origin_address", "latitude", "longitude"} :
                         places[up_data[s].id][f] = up_data[w][f]
             /\ (~up_place[s] /\ ~up_place[t]) =>
                   \E w \in {s, t} :
                      /\ up_pc[w] = "done"
                      /\ \A l \in {s, t} \ {w} :
                            up_pc[l] = "failed" /\ up_error[l] = "IntegrityError"
    /\ \A s \in Sessions : up_pc[s] = "failed" => ~up_pending[s]

\* both calls found no row of id 7; one inserted it and the other raised
C30_Witness ==
    /\ RaceOver("s1", "s2")
    /\ ~up_place["s1"] /\ ~up_place["s2"]
    /\ up_data["s1"] # up_data["s2"]
    /\ up_pc["s2"] = "done" /\ up_pc["s1"] = "failed"
    /\ up_error["s1"] = "IntegrityError"
    /\ places[7].name = up_data["s2"].name
====
